---- MODULE Spec2Model ----
(***************************************************************************)
(* Model of the stream variant of the system-tray client: the event loop   *)
(* LoopInner (src/stream/stream_loop.rs), its wake router                  *)
(* (src/stream/waker.rs), the follow-up futures (src/stream/handle.rs,     *)
(* src/stream/future.rs), the property-change decoder (src/handle.rs) and   *)
(* Client::activate (src/stream/client.rs); beside them parse_address,     *)
(* Client::create_stream, the channel client                               *)
(* (src/client/calloop_channel.rs) and the mutex of the ready set, each    *)
(* under a specification of its own.                                       *)
(* The bus, the watcher and the tray applications are the environment.     *)
(***************************************************************************)
EXTENDS Integers, Sequences, FiniteSets, TLC

(***************************************************************************)
(* Bounds of the model.                                                    *)
(***************************************************************************)
MaxInputs == 3
MaxReady == 2
MaxCoord == 1
MaxSubmenu == 1
MaxLen == 4
MaxTries == 5
MaxSignals == 4
MaxPolls == 3
MaxSlots == 3

(***************************************************************************)
(* Strings are sequences of characters.                                    *)
(***************************************************************************)
Slash == "/"

\* Item addresses announced by the watcher; the first two share a destination.
Addresses ==
  { <<":1.50">>, <<":1.50", "/", "a">>, <<":1.99">> }

\* Position of the first '/' of s, 0 when there is none (str::split_once).
RECURSIVE FirstSlash(_, _)
FirstSlash(s, i) ==
  IF i > Len(s) THEN 0
  ELSE IF s[i] = Slash THEN i
  ELSE FirstSlash(s, i + 1)

ITEM_PATH == <<"/", "StatusNotifierItem">>

\* Variant of parse_address: the path is returned without its leading '/'.
parse_address_NoSlash(address) ==
  LET i == FirstSlash(address, 1)
  IN IF i = 0
       THEN <<address, ITEM_PATH>>
       ELSE <<SubSeq(address, 1, i - 1),
              SubSeq(address, i + 1, Len(address))>>

\* parse_address: (destination, path).
parse_address(address) ==
  LET i == FirstSlash(address, 1)
  IN IF i = 0
       THEN <<address, ITEM_PATH>>
       ELSE <<SubSeq(address, 1, i - 1),
              <<Slash>> \o SubSeq(address, i + 1, Len(address))>>

Destinations == { parse_address(a)[1] : a \in Addresses }

\* The addresses parse_address is applied to: every string of at most MaxLen
\* characters over a bus name, '/' and a path segment.
AddressInputs == UNION { [1..n -> { ":1.50", Slash, "a" }] : n \in 0..MaxLen }

\* No address has been parsed yet.
Unparsed == <<>>

(***************************************************************************)
(* Signal member names and the values a property fetch can return.         *)
(***************************************************************************)
NewAttentionIcon ==
  <<"N","e","w","A","t","t","e","n","t","i","o","n","I","c","o","n">>
NewIcon == <<"N","e","w","I","c","o","n">>
NewOverlayIcon == <<"N","e","w","O","v","e","r","l","a","y","I","c","o","n">>
NewStatus == <<"N","e","w","S","t","a","t","u","s">>
NewTitle == <<"N","e","w","T","i","t","l","e">>
NewToolTip == <<"N","e","w","T","o","o","l","T","i","p">>
NewFrobnicator == <<"N","e","w","F","r","o","b">>
Up == <<"U","p">>

KnownMembers ==
  { NewAttentionIcon, NewIcon, NewOverlayIcon, NewStatus, NewTitle, NewToolTip }

\* Members the environment sends on an item's interface.
Members == { NewIcon, NewToolTip, NewFrobnicator, Up }

\* Type of the value returned by Properties.Get: a string, a structure that
\* decodes as a tooltip, a structure that does not, any other type; FetchErr
\* is a failed call.
FetchErr == "err"
Values == { "str", "struct", "badstruct", "other" }

(***************************************************************************)
(* Public events (src/event.rs).                                           *)
(***************************************************************************)
Add(d, menu) == [t |-> "Add", d |-> d, k |-> IF menu THEN "menu" ELSE "nomenu", p |-> "snapshot"]
Update(d, k, p) == [t |-> "Update", d |-> d, k |-> k, p |-> p]
Remove(d) == [t |-> "Remove", d |-> d, k |-> "", p |-> ""]

(***************************************************************************)
(* Property-change decoder (src/handle.rs, get_update_event).              *)
(***************************************************************************)
\* The panic of the slice member["New".len()..] on a member shorter than
\* three bytes.
SlicePanic == <<"byte index 3 is out of bounds">>

\* The property fetched for a signal member.
property_name(member) ==
  IF member = NewAttentionIcon THEN <<"AttentionIconName">>
  ELSE IF member = NewIcon THEN <<"IconName">>
  ELSE IF member = NewOverlayIcon THEN <<"OverlayIconName">>
  ELSE IF member = NewStatus THEN <<"Status">>
  ELSE IF member = NewTitle THEN <<"Title">>
  ELSE IF member = NewToolTip THEN <<"ToolTip">>
  ELSE IF Len(member) < 3 THEN SlicePanic
  ELSE SubSeq(member, 4, Len(member))

NoUpdate == [k |-> "none", p |-> ""]

\* OwnedValueExt::to_string(..).ok(): Some for a string value.
to_string_ok(v) == IF v = "str" THEN "Some" ELSE "None"

\* The decoded update for member and the fetched value v (or FetchErr).
get_update_event(member, v) ==
  IF v = FetchErr THEN NoUpdate
  ELSE IF member = NewAttentionIcon THEN [k |-> "AttentionIcon", p |-> to_string_ok(v)]
  ELSE IF member = NewIcon THEN [k |-> "Icon", p |-> to_string_ok(v)]
  ELSE IF member = NewOverlayIcon THEN [k |-> "OverlayIcon", p |-> to_string_ok(v)]
  ELSE IF member = NewStatus
    THEN [k |-> "Status", p |-> IF v = "str" THEN "Parsed" ELSE "Default"]
  ELSE IF member = NewTitle THEN [k |-> "Title", p |-> to_string_ok(v)]
  ELSE IF member = NewToolTip
    THEN IF v = "struct" THEN [k |-> "Tooltip", p |-> "Some"]
         ELSE IF v = "badstruct" THEN [k |-> "Tooltip", p |-> "None"]
         ELSE NoUpdate
  ELSE NoUpdate

(***************************************************************************)
(* Follow-up futures (src/stream/handle.rs) and the slab.                  *)
(***************************************************************************)
NoOwner == <<>>

\* NameOwnerChanged records: a name lost by its owner, a name acquired.
NocRecords ==
  { [old |-> d, new |-> NoOwner] : d \in Destinations }
    \cup { [old |-> NoOwner, new |-> <<":1.7">>] }

NoNoc == [old |-> NoOwner, new |-> NoOwner]

\* An item: whether it has a menu proxy and a layout-updated stream, and the
\* messages queued in its name-owner-changed stream (dq), its signal stream
\* (pq) and its layout-updated stream (lq, a count); end holds the streams
\* that reached end-of-stream, named by the wake source of their drain.
NewItem(menu) ==
  [menu |-> menu, dq |-> <<>>, pq |-> <<>>, lq |-> 0, end |-> {}]

NoItem == NewItem(FALSE)

\* An empty slab slot.
NoneFut ==
  [k |-> "none", a |-> <<>>, d |-> <<>>, m |-> <<>>, n |-> NoNoc, res |-> "",
   item |-> NoItem]

\* The bring-up future of handle_new_item, waiting for the bus.
NewItemFut(address) ==
  [k |-> "new", a |-> address, d |-> parse_address(address)[1], m |-> <<>>,
   n |-> NoNoc, res |-> "wait", item |-> NoItem]

\* The property refetch future of poll_property_change.
UpdateFut(d, member) ==
  [k |-> "upd", a |-> <<>>, d |-> d, m |-> member, n |-> NoNoc, res |-> "wait",
   item |-> NoItem]

\* The layout refetch future of poll_layout_change.
LayoutFut(d) ==
  [k |-> "lay", a |-> <<>>, d |-> d, m |-> <<>>, n |-> NoNoc, res |-> "wait",
   item |-> NoItem]

\* The remove-finalization future of handle_remove_item.
RemoveFut(d, n) ==
  [k |-> "rem", a |-> <<>>, d |-> d, m |-> <<>>, n |-> n, res |-> "wait",
   item |-> NoItem]

\* Outcomes of the round trips of each kind of future.
NewOutcomes == { "ok", "ok_menu", "props_err", "layout_err" }
UpdOutcomes == Values \cup { FetchErr }
LayOutcomes == { "ok", "err" }
RemOutcomes == { "ok", "unregister_err" }

Outcomes(fut) ==
  IF fut.k = "new" THEN NewOutcomes
  ELSE IF fut.k = "upd" THEN UpdOutcomes
  ELSE IF fut.k = "lay" THEN LayOutcomes
  ELSE IF fut.k = "rem" THEN RemOutcomes
  ELSE {}

\* Internal loop events (src/stream/future.rs, LoopEvent).
NoLE == [t |-> "None"]
LEAdd(events, d, item) == [t |-> "Add", events |-> events, d |-> d, item |-> item]
LERemove(ev) == [t |-> "Remove", ev |-> ev]
LEUpdata(ev) == [t |-> "Updata", ev |-> ev]
LEInit(list) == [t |-> "Init", list |-> list]

\* get_new_layout: GetLayout(0, -1, []) parsed into Update(destination, Menu).
get_new_layout(d) == Update(d, "Menu", "tree")

\* Variant of NewItemEvents: the initial layout is pushed before the Add.
NewItemEvents_MenuFirst(d, menu) ==
  IF menu THEN <<get_new_layout(d), Add(d, TRUE)>> ELSE <<Add(d, FALSE)>>

\* Variant of NewItemEvents: the initial layout is fetched but not pushed.
NewItemEvents_NoMenu(d, menu) == <<Add(d, menu)>>

\* The events of a bring-up whose properties fetch succeeded.
NewItemEvents(d, menu) ==
  IF menu THEN <<Add(d, TRUE), get_new_layout(d)>> ELSE <<Add(d, FALSE)>>

\* to_new_item_event: the result of the bring-up future for its outcome.
\* item holds the streams the bring-up subscribed, with the messages that
\* arrived on them since.
to_new_item_event(address, res, item) ==
  LET d == parse_address(address)[1]
  IN IF res = "ok" THEN LEAdd(NewItemEvents(d, FALSE), d, item)
     ELSE IF res = "ok_menu" THEN LEAdd(NewItemEvents(d, TRUE), d, item)
     ELSE NoLE

\* to_update_item_event: the result of a property refetch.
to_update_item_event(d, member, v) ==
  LET e == get_update_event(member, v)
  IN IF e = NoUpdate THEN NoLE ELSE LEUpdata(Update(d, e.k, e.p))

\* to_layout_update_event: the result of a layout refetch.
to_layout_update_event(d, res) ==
  IF res = "ok" THEN LEUpdata(get_new_layout(d)) ELSE NoLE

\* The test of handle_remove_item's future: old owner = destination, no new.
IsDisconnect(n, d) == n.old # NoOwner /\ n.new = NoOwner /\ n.old = d

\* Result of polling a future once.
PollPending == [ready |-> FALSE, le |-> NoLE, panic |-> FALSE]
PollReady(le) == [ready |-> TRUE, le |-> le, panic |-> FALSE]
PollPanic == [ready |-> FALSE, le |-> NoLE, panic |-> TRUE]

\* Variant of PollFuture: the remove finalization does not look at the
\* owners of its record.
PollFuture_AnyRecord(fut) ==
  IF fut.k = "new"
    THEN IF fut.res = "wait" THEN PollPending
         ELSE PollReady(to_new_item_event(fut.a, fut.res, fut.item))
  ELSE IF fut.k = "upd"
    THEN IF property_name(fut.m) = SlicePanic THEN PollPanic
         ELSE IF fut.res = "wait" THEN PollPending
         ELSE PollReady(to_update_item_event(fut.d, fut.m, fut.res))
  ELSE IF fut.k = "lay"
    THEN IF fut.res = "wait" THEN PollPending
         ELSE PollReady(to_layout_update_event(fut.d, fut.res))
  ELSE IF fut.res = "wait" THEN PollPending
  ELSE PollReady(LERemove(Remove(fut.d)))

\* Variant of PollFuture: a failed unregister call resolves the remove
\* finalization to None.
PollFuture_UnregisterAborts(fut) ==
  IF fut.k = "new"
    THEN IF fut.res = "wait" THEN PollPending
         ELSE PollReady(to_new_item_event(fut.a, fut.res, fut.item))
  ELSE IF fut.k = "upd"
    THEN IF property_name(fut.m) = SlicePanic THEN PollPanic
         ELSE IF fut.res = "wait" THEN PollPending
         ELSE PollReady(to_update_item_event(fut.d, fut.m, fut.res))
  ELSE IF fut.k = "lay"
    THEN IF fut.res = "wait" THEN PollPending
         ELSE PollReady(to_layout_update_event(fut.d, fut.res))
  ELSE IF ~IsDisconnect(fut.n, fut.d) THEN PollReady(NoLE)
  ELSE IF fut.res = "wait" THEN PollPending
  ELSE IF fut.res = "unregister_err" THEN PollReady(NoLE)
  ELSE PollReady(LERemove(Remove(fut.d)))

\* fut.poll_unpin: a future waiting for a reply is Pending; a remove future
\* of a record that is no disconnect of its item resolves at once to None.
PollFuture(fut) ==
  IF fut.k = "new"
    THEN IF fut.res = "wait" THEN PollPending
         ELSE PollReady(to_new_item_event(fut.a, fut.res, fut.item))
  ELSE IF fut.k = "upd"
    THEN IF property_name(fut.m) = SlicePanic THEN PollPanic
         ELSE IF fut.res = "wait" THEN PollPending
         ELSE PollReady(to_update_item_event(fut.d, fut.m, fut.res))
  ELSE IF fut.k = "lay"
    THEN IF fut.res = "wait" THEN PollPending
         ELSE PollReady(to_layout_update_event(fut.d, fut.res))
  ELSE IF ~IsDisconnect(fut.n, fut.d) THEN PollReady(NoLE)
  ELSE IF fut.res = "wait" THEN PollPending
  ELSE PollReady(LERemove(Remove(fut.d)))

\* Variant of preserve_space: the last free slot is taken.
preserve_space_LastFree(map) ==
  IF \E i \in 1..Len(map) : map[i] = NoneFut
    THEN (CHOOSE i \in 1..Len(map) :
            map[i] = NoneFut /\ \A j \in (i + 1)..Len(map) : map[j] # NoneFut) - 1
    ELSE Len(map)

\* FutureMap::preserve_space: the index (from 0) of the first free slot, or
\* the length of the slab when every slot is occupied.
preserve_space(map) ==
  IF \E i \in 1..Len(map) : map[i] = NoneFut
    THEN (CHOOSE i \in 1..Len(map) :
            map[i] = NoneFut /\ \A j \in 1..(i - 1) : map[j] # NoneFut) - 1
    ELSE Len(map)

\* The slab with the slot preserve_space returned in place: a pushed None
\* when the index is the length of the slab.
reserved(map, index) ==
  IF index = Len(map) THEN Append(map, NoneFut) ELSE map

\* Variant of try_put_polled: a pending future is pushed at the end of the
\* slab instead of being stored in the reserved slot.
try_put_polled_Pushes(L, fut, index, res) ==
  IF res.panic
    THEN [L EXCEPT !.futures = reserved(L.futures, index),
                   !.status = IF @ = "ok" THEN "panicked" ELSE @]
  ELSE IF res.ready
    THEN [L EXCEPT !.futures = reserved(L.futures, index),
                   !.les = IF res.le.t = "None" THEN @ ELSE Append(@, res.le)]
  ELSE [L EXCEPT !.futures = Append(L.futures, fut)]

\* try_put once the slot is reserved and the future polled once: a pending
\* future is stored in the slot; a resolved one leaves the slot free and
\* its event, when it carries one, is returned (kept in L.les).
try_put_polled(L, fut, index, res) ==
  IF res.panic
    THEN [L EXCEPT !.futures = reserved(L.futures, index),
                   !.status = IF @ = "ok" THEN "panicked" ELSE @]
  ELSE IF res.ready
    THEN [L EXCEPT !.futures = reserved(L.futures, index),
                   !.les = IF res.le.t = "None" THEN @ ELSE Append(@, res.le)]
  ELSE [L EXCEPT
          !.futures = [reserved(L.futures, index) EXCEPT ![index + 1] = fut]]

\* FutureMap::try_put on the loop state L.
try_put(L, fut) ==
  try_put_polled(L, fut, preserve_space(L.futures), PollFuture(fut))

\* try_put over a sequence of futures, keeping the resolved events
\* (the filter_map of the drain operations).
RECURSIVE PutAll(_, _)
PutAll(L, futs) ==
  IF futs = <<>> THEN L ELSE PutAll(try_put(L, Head(futs)), Tail(futs))

(***************************************************************************)
(* Per-item drain operations (src/stream/stream_loop.rs, Item).            *)
(***************************************************************************)
\* loop_until_pending on a stream holding the queue q: its messages.
loop_until_pending(q) == q

\* loop_until_pending on a stream that reached end-of-stream: the stream
\* answers every poll with Ready(None), which the while-let loop pushes, so
\* the loop never reaches Pending and the drain never returns.
Hung(L) == [L EXCEPT !.status = IF @ = "ok" THEN "hung" ELSE @]

\* The drain of the disconnect stream of item on the loop state L.
disconnect_drained(L, item) ==
  IF "Disconnect" \in item.end THEN Hung(L) ELSE L

\* An item whose three streams were drained to Pending.
drained(item) == [NewItem(item.menu) EXCEPT !.end = item.end]

\* Item::poll_disconnect: the records drained from the stream.
poll_disconnect(item) == loop_until_pending(item.dq)

\* The refetch futures of the signals drained from the signal stream.
property_futures(d, ms) == [i \in 1..Len(ms) |-> UpdateFut(d, ms[i])]

\* Variant of poll_property_change: only the first queued signal is taken.
poll_property_change_FirstOnly(L, d, item) ==
  IF "PropertyChange" \in item.end THEN Hung(L)
  ELSE PutAll(L, property_futures(d, IF item.pq = <<>> THEN <<>>
                                        ELSE <<Head(item.pq)>>))

\* Item::poll_property_change: one refetch future for each drained signal.
poll_property_change(L, d, item) ==
  IF "PropertyChange" \in item.end THEN Hung(L)
  ELSE PutAll(L, property_futures(d, loop_until_pending(item.pq)))

\* Item::poll_layout_change: one layout future for each drained signal of
\* an item that has a layout stream.
poll_layout_change(L, d, item) ==
  IF ~item.menu THEN L
  ELSE IF "LayoutUpdate" \in item.end THEN Hung(L)
  ELSE PutAll(L, [i \in 1..loop_until_pending(item.lq) |-> LayoutFut(d)])

(***************************************************************************)
(* The loop (src/stream/handle.rs and src/stream/future.rs, LoopInner).    *)
(* L is the loop state threaded through one poll: items, futures, the      *)
(* registration stream, whether the poll panicked, the events collected    *)
(* so far (out), the loop events a drain returned and that are not yet     *)
(* processed (les), and what first_poll's first pass collected (polls).    *)
(***************************************************************************)
LoopState(its, futs, q, ended) ==
  [items |-> its, futures |-> futs, regq |-> q, regend |-> ended,
   status |-> "ok", out |-> <<>>, les |-> <<>>, polls |-> <<>>]

Insert(its, d, item) ==
  [x \in (DOMAIN its) \cup {d} |-> IF x = d THEN item ELSE its[x]]

\* Variant of item_removed: the item stays in the map.
item_removed_Keeps(its, d) == its

\* LoopInner::item_removed.
item_removed(its, d) == [x \in (DOMAIN its) \ {d} |-> its[x]]

\* Events appended to the collection the poll returns.
Emit(L, evs) == [L EXCEPT !.out = @ \o evs]

RECURSIVE process_by_loop(_, _)

\* process_by_loop over a sequence of loop events, in order.
RECURSIVE ProcessAll(_, _)
ProcessAll(L, les) ==
  IF les = <<>> THEN L
  ELSE ProcessAll(process_by_loop(L, Head(les)), Tail(les))

\* process_by_loop over the loop events the last drain returned.
ProcessReturned(L) == ProcessAll([L EXCEPT !.les = <<>>], L.les)

\* LoopInner::handle_remove_item.
handle_remove_item(L, d, n) == ProcessReturned(try_put(L, RemoveFut(d, n)))

\* handle_remove_item over the drained records, in order.
RECURSIVE RemoveAll(_, _, _)
RemoveAll(L, d, recs) ==
  IF recs = <<>> THEN L
  ELSE RemoveAll(handle_remove_item(L, d, Head(recs)), d, Tail(recs))

\* LoopInner::handle_new_item.
handle_new_item(L, address) ==
  ProcessReturned(try_put(L, NewItemFut(address)))

\* handle_new_item over the drained registrations, in order.
RECURSIVE NewItemAll(_, _)
NewItemAll(L, addresses) ==
  IF addresses = <<>> THEN L
  ELSE NewItemAll(handle_new_item(L, Head(addresses)), Tail(addresses))

\* The insert of new_item_added.
InsertItem(L, d, item) == [L EXCEPT !.items = Insert(L.items, d, item)]

\* LoopInner::new_item_added: arm the signal stream, the layout stream and
\* the disconnect stream, insert the item, then handle the drained records.
new_item_added(L, d, item) ==
  RemoveAll(
    InsertItem(
      disconnect_drained(
        ProcessReturned(poll_layout_change(
          ProcessReturned(poll_property_change(L, d, item)), d, item)),
        item),
      d, drained(item)),
    d, poll_disconnect(item))

\* LoopInner::wrap_new_item_added.
wrap_new_item_added(L, events, d, item) ==
  new_item_added(Emit(L, events), d, item)

\* LoopEvent::process_by_loop.
process_by_loop(L, le) ==
  IF le.t = "Add" THEN wrap_new_item_added(L, le.events, le.d, le.item)
  ELSE IF le.t = "Remove"
    THEN Emit([L EXCEPT !.items = item_removed(L.items, le.ev.d)], <<le.ev>>)
  ELSE IF le.t = "Updata" THEN Emit(L, <<le.ev>>)
  ELSE NewItemAll(L, le.list)

\* LoopInner::poll_item_stream.
poll_item_stream(L) ==
  IF L.regend THEN Hung(L)
  ELSE NewItemAll([L EXCEPT !.regq = <<>>], loop_until_pending(L.regq))

(***************************************************************************)
(* Wake sources (src/stream/waker.rs).                                     *)
(***************************************************************************)
ItemWakeFrom == { "Disconnect", "PropertyChange", "LayoutUpdate" }

WakeNewItem == [t |-> "NewItem", i |-> 0, d |-> <<>>, w |-> ""]
FutureEvent(i) == [t |-> "FutureEvent", i |-> i, d |-> <<>>, w |-> ""]
ItemUpdate(d, w) == [t |-> "ItemUpdate", i |-> 0, d |-> d, w |-> w]

\* An unwrap on None inside the poll.
Panicked(L) == [L EXCEPT !.status = IF @ = "ok" THEN "panicked" ELSE @]

\* Variant of wake_future: a resolved future is left in its slot.
wake_future_KeepsSlot(L, i, res) ==
  IF res.panic THEN Panicked(L)
  ELSE IF ~res.ready THEN L
  ELSE IF res.le.t = "None" THEN L
  ELSE process_by_loop(L, res.le)

\* wake_from(FutureEvent(i)) once the future was taken out of its slot and
\* polled: a pending future goes back into the slot, a resolved one is
\* processed.
wake_future(L, i, res) ==
  IF res.panic THEN Panicked(L)
  ELSE IF ~res.ready THEN L
  ELSE IF res.le.t = "None" THEN [L EXCEPT !.futures[i + 1] = NoneFut]
  ELSE process_by_loop([L EXCEPT !.futures[i + 1] = NoneFut], res.le)

\* wake_from(ItemUpdate) on a tracked item: the drain of the stream named.
wake_item(L, d, w) ==
  IF w = "Disconnect"
    THEN RemoveAll(
           disconnect_drained([L EXCEPT !.items[d].dq = <<>>], L.items[d]),
           d, poll_disconnect(L.items[d]))
  ELSE IF w = "PropertyChange"
    THEN ProcessReturned(
           poll_property_change([L EXCEPT !.items[d].pq = <<>>], d,
                                L.items[d]))
  ELSE ProcessReturned(
         poll_layout_change([L EXCEPT !.items[d].lq = 0], d, L.items[d]))

\* LoopInner::wake_from.
wake_from(L, wf) ==
  IF wf.t = "NewItem" THEN poll_item_stream(L)
  ELSE IF wf.t = "FutureEvent"
    THEN IF wf.i >= Len(L.futures) \/ L.futures[wf.i + 1] = NoneFut
           THEN Panicked(L)
         ELSE wake_future(L, wf.i, PollFuture(L.futures[wf.i + 1]))
  ELSE IF wf.d \notin DOMAIN L.items THEN Panicked(L)
  ELSE wake_item(L, wf.d, wf.w)

\* Variant of DrainTokens: the token recorded last is dispatched first.
RECURSIVE DrainTokens_Lifo(_, _)
DrainTokens_Lifo(L, tokens) ==
  IF tokens = <<>> \/ L.status # "ok" THEN L
  ELSE DrainTokens_Lifo(wake_from(L, tokens[Len(tokens)]),
                        SubSeq(tokens, 1, Len(tokens) - 1))

\* The drain of ready_tokens in poll_next: wake_from on each token in order;
\* a panic ends the poll.
RECURSIVE DrainTokens(_, _)
DrainTokens(L, tokens) ==
  IF tokens = <<>> \/ L.status # "ok" THEN L
  ELSE DrainTokens(wake_from(L, Head(tokens)), Tail(tokens))

\* The items of the map in the order the first poll visits them.
ItemOrder(its) ==
  CHOOSE sq \in [1..Cardinality(DOMAIN its) -> DOMAIN its] :
    \A d \in DOMAIN its : \E i \in DOMAIN sq : sq[i] = d

\* What first_poll's first pass keeps of one item: its drained records and
\* the loop events its two other drains returned.
ItemPoll(d, dis, prop, layout) ==
  [d |-> d, dis |-> dis, prop |-> prop, layout |-> layout]

\* The first pass starts on an item: its drained records are kept.
keep_disconnect(L, d) ==
  [disconnect_drained(L, L.items[d]) EXCEPT !.polls =
     Append(@, ItemPoll(d, poll_disconnect(L.items[d]), <<>>, <<>>))]

\* The loop events poll_property_change returned are kept for the item.
keep_property(L) ==
  [L EXCEPT !.polls[Len(L.polls)].prop = L.les, !.les = <<>>]

\* The loop events poll_layout_change returned are kept for the item, whose
\* streams are now drained.
keep_layout(L, d) ==
  [L EXCEPT !.polls[Len(L.polls)].layout = L.les, !.les = <<>>,
            !.items[d] = drained(@)]

\* first_poll, first pass, one item: drain its three streams.
first_poll_item(L, d) ==
  keep_layout(
    poll_layout_change(
      keep_property(
        poll_property_change(keep_disconnect(L, d), d, L.items[d])),
      d, L.items[d]),
    d)

\* first_poll, first pass: every item of the map.
RECURSIVE FirstPollDrain(_, _)
FirstPollDrain(L, ds) ==
  IF ds = <<>> THEN L
  ELSE FirstPollDrain(first_poll_item(L, Head(ds)), Tail(ds))

\* first_poll, second pass: apply what the first pass collected.
RECURSIVE FirstPollApply(_, _)
FirstPollApply(L, polls) ==
  IF polls = <<>> THEN L
  ELSE FirstPollApply(
         ProcessAll(
           ProcessAll(RemoveAll(L, Head(polls).d, Head(polls).dis),
                      Head(polls).prop),
           Head(polls).layout),
         Tail(polls))

\* The second pass on the result of the first.
first_poll_apply(L) == FirstPollApply([L EXCEPT !.polls = <<>>], L.polls)

\* LoopInner::first_poll.
first_poll(L) ==
  poll_item_stream(first_poll_apply(FirstPollDrain(L, ItemOrder(L.items))))

\* Variant of poll_result: an empty collection is returned as a batch.
poll_result_NoEmptyCheck(term, events) == IF term THEN "None" ELSE "Some"

\* The value poll_next returns for the events it collected.
poll_result(term, events) ==
  IF term THEN "None"
  ELSE IF events = <<>> THEN "Pending"
  ELSE "Some"

(***************************************************************************)
(* Client::activate (src/stream/client.rs; src/client/calloop_channel.rs   *)
(* holds the same body).                                                   *)
(***************************************************************************)
\* ActivateRequest.
MenuPath == <<"/", "MenuBar">>
MenuItem(address, menu_path, submenu_id) ==
  [kind |-> "MenuItem", address |-> address, menu_path |-> menu_path,
   submenu_id |-> submenu_id, x |-> 0, y |-> 0]
Default(address, x, y) ==
  [kind |-> "Default", address |-> address, menu_path |-> <<>>,
   submenu_id |-> 0, x |-> x, y |-> y]
Secondary(address, x, y) ==
  [kind |-> "Secondary", address |-> address, menu_path |-> <<>>,
   submenu_id |-> 0, x |-> x, y |-> y]

ActivateRequests ==
  { MenuItem(a, MenuPath, i) : a \in Addresses, i \in 0..MaxSubmenu }
    \cup { Default(a, x, y) :
             a \in Addresses, x \in 0..MaxCoord, y \in 0..MaxCoord }
    \cup { Secondary(a, x, y) :
             a \in Addresses, x \in 0..MaxCoord, y \in 0..MaxCoord }

\* get_menu_proxy / get_notifier_item_proxy: the builder rejects the
\* destination or the path, or build() fails, or the proxy is built.
ProxyOutcomes == { "ok", "invalid_destination", "invalid_path", "build_err" }

\* The bus call under timeout(1 s): it completes with Ok, completes with an
\* error, or the timeout elapses first.
CallOutcomes == { "ok", "err", "elapsed" }

\* timeout_event!: whether the macro logs; only Elapsed is an Err of the
\* timeout's result, the result of the call itself is dropped.
timeout_event(call) == call = "elapsed"

\* Variant of activate_result: an elapsed timeout is returned as an error.
activate_result_TimeoutFails(proxy, call) ==
  IF proxy # "ok" \/ call = "elapsed" THEN "Err" ELSE "Ok"

\* What activate returns: the `?` on the proxy, else Ok(()).
activate_result(proxy, call) == IF proxy # "ok" THEN "Err" ELSE "Ok"

Idle ==
  [pc |-> "idle", req |-> MenuItem(<<>>, <<>>, 0), proxy |-> "", call |-> "",
   logged |-> FALSE, result |-> ""]

(***************************************************************************)
(* State.                                                                  *)
(***************************************************************************)
(***************************************************************************)
(* Client::create_stream: the bootstrap of the stream client.              *)
(***************************************************************************)
\* format!("org.freedesktop.StatusNotifierHost-{pid}-{i}"), the process id
\* left as a word.
HostName(i) == <<"org.freedesktop.StatusNotifierHost", "pid", i>>

\* The replies of RequestName under DoNotQueue, and a failed call.
RequestNameReplies == { "PrimaryOwner", "Exists", "AlreadyOwner", "Err" }

\* The outcomes of the other bootstrap steps.
StepOutcomes == { "ok", "err" }

\* Variant of request_name_next: the reply Exists leaves the loop as well.
request_name_next_ExistsBreaks(reply) ==
  IF reply \in { "PrimaryOwner", "Exists" } THEN "register"
  ELSE IF reply = "AlreadyOwner" THEN "request"
  ELSE "done"

\* The match on the reply of request_name_with_flags(..).await?: where
\* create_stream continues.
request_name_next(reply) ==
  IF reply = "PrimaryOwner" THEN "register"
  ELSE IF reply \in { "Exists", "AlreadyOwner" } THEN "request"
  ELSE "done"

\* create_stream has been called and has not run a step yet.
NotBooted == [pc |-> "attach", i |-> 0, log |-> <<>>, result |-> ""]

\* A step other than RequestName ended with outcome o: on an error the `?`
\* returns it, otherwise create_stream goes on with the step next.
boot_step(b, op, o, next) ==
  [b EXCEPT !.log = Append(@, [op |-> op, name |-> <<>>, reply |-> o]),
            !.pc = IF o = "ok" THEN next ELSE "done",
            !.result = IF o = "ok" THEN b.result ELSE "Err"]

(***************************************************************************)
(* The channel client (src/client/calloop_channel.rs): the state shared    *)
(* with the caller, the spawned tasks and the events sent on the channel.  *)
(***************************************************************************)
\* names::WATCHER_BUS and a name of no interest to the client.
WATCHER_BUS == "names::WATCHER_BUS"
AcquiredNames == { WATCHER_BUS, HostName(1) }

\* The tasks Client::new spawns to handle items: the one on the
\* StatusNotifierItemRegistered stream and the one on the initial items.
ItemTasks == { "new items", "initial items" }

\* Client::new returned: an empty state, both item tasks running, no item
\* watched, nothing sent.
NewClient ==
  [state |-> {},
   tasks |-> ItemTasks,
   watchers |-> [d \in Destinations |-> 0],
   sent |-> <<>>,
   signals |-> 0]

\* tx.send of the events evs, in order.
send(c, evs) == [c EXCEPT !.sent = @ \o evs]

\* The events handle_item sends for an item with or without a menu.
handle_item_events(d, menu) ==
  IF menu THEN << Add(d, menu), Update(d, "MenuConnect", "path") >>
  ELSE << Add(d, menu) >>

\* handle_item run by task for address with the outcome o of building the
\* proxy and fetching the properties: an error ends the calling task;
\* otherwise the item is inserted, Add is sent and a watcher is spawned.
handle_item(c, task, address, o, menu) ==
  IF o # "ok" THEN [c EXCEPT !.tasks = @ \ {task}]
  ELSE send([c EXCEPT !.state = @ \cup { parse_address(address)[1] },
                      !.watchers[parse_address(address)[1]] = @ + 1],
            handle_item_events(parse_address(address)[1], menu))

\* The Remove events of the destinations in order.
RECURSIVE Removes(_)
Removes(order) ==
  IF order = <<>> THEN <<>> ELSE <<Remove(Head(order))>> \o Removes(Tail(order))

\* Variant of name_acquired: the events are sent and the state is kept.
name_acquired_KeepsState(c, name, order) ==
  IF name = WATCHER_BUS THEN send(c, Removes(order)) ELSE c

\* The name_acquired task on NameAcquired(name): for the watcher's name
\* every key is removed and its Remove sent, in the order the keys come.
name_acquired(c, name, order) ==
  IF name = WATCHER_BUS
    THEN send([c EXCEPT !.state = {}], Removes(order))
    ELSE c

\* The orders in which the keys of the state can come out of the HashMap.
KeyOrders(keys) ==
  { o \in UNION { [1..n -> keys] : n \in {Cardinality(keys)} } :
      \A i, j \in 1..Len(o) : i # j => o[i] # o[j] }

\* watch_item_properties of d on NameOwnerChanged(d, Some(d), None):
\* whether or not the unregistration succeeds, Remove is sent and the
\* watcher ends.
disconnected(c, d) ==
  send([c EXCEPT !.watchers[d] = @ - 1], <<Remove(d)>>)

(***************************************************************************)
(* The ready set and its mutex (src/stream/waker.rs, poll_next): the loop  *)
(* statement by statement, with the registration stream and the slab       *)
(* futures as its sources.  What a future computes is left open: a poll of *)
(* it returns Pending or Ready and may call its waker before returning.    *)
(***************************************************************************)
\* A future stored in the slab.
SomeFut == NewItemFut(<<":1.50">>)

\* What locking a std::sync::Mutex does on the thread that holds it: it
\* never returns, or it panics.
RelockOutcomes == { "deadlocked", "relock panicked" }

\* LoopInner::new: not polled, no WakerData yet, an empty slab.
NewLoop ==
  [pc |-> "idle", polled |-> FALSE, lock |-> "free", status |-> "ok",
   tokens |-> <<>>, slots |-> <<>>, regq |-> 0, calling |-> {},
   woken |-> FALSE, owed |-> {}, done |-> 0, inputs |-> 0]

\* Bookkeeping of the wakes: the poll by which a wake made now has to be
\* dispatched is the next poll, or the one after the poll that is running.
Due(m) == IF m.pc = "idle" THEN m.done + 1 ELSE m.done + 2

\* The body of wake_by_ref once the mutex is locked: the token is pushed
\* and the root waker woken.
push_token(m, tk) ==
  [m EXCEPT !.tokens = Append(@, tk),
            !.woken = TRUE,
            !.owed = @ \cup { [tk |-> tk, due |-> Due(m)] }]

\* wake_by_ref called by the source the loop is polling, on the loop's
\* thread: the mutex is locked again while poll_next holds it, or it is
\* free and the token is pushed.
sync_wake(m, tk, relock) ==
  IF m.lock = "poll"
    THEN [m EXCEPT !.status = relock,
                   !.owed = @ \cup { [tk |-> tk, due |-> Due(m)] }]
    ELSE push_token(m, tk)

\* One poll of a future under the waker tk: it may wake itself.
polled_once(m, tk, sw, relock) ==
  IF sw THEN sync_wake(m, tk, relock) ELSE m

\* Bookkeeping of the wakes: the token tk has been dispatched.
dispatched(m, tk) ==
  [m EXCEPT !.owed = { r \in @ : r.tk # tk }]

\* FutureMap::try_put: the slot is reserved, the future polled once and
\* stored when it is pending.
slab_try_put(m, index, ready, sw, relock) ==
  polled_once(
    [m EXCEPT !.slots = IF ready THEN reserved(m.slots, index)
                        ELSE [reserved(m.slots, index) EXCEPT
                                ![index + 1] = SomeFut]],
    FutureEvent(index), sw, relock)

\* wake_from(FutureEvent(i)): the future is taken out of its slot (a panic
\* when the slot is empty), polled, and put back when it is pending.
slab_wake_from(m, i, ready, sw, relock) ==
  IF i >= Len(m.slots) \/ m.slots[i + 1] = NoneFut
    THEN [m EXCEPT !.status = "panicked"]
    ELSE polled_once(
           dispatched([m EXCEPT !.slots[i + 1] = IF ready THEN NoneFut ELSE @],
                      FutureEvent(i)),
           FutureEvent(i), sw, relock)

(***************************************************************************)
(* The slab on its own (src/stream/stream_loop.rs, FutureMap): map is the  *)
(* slab, prev the slab before the last operation, op the operation, fut    *)
(* the future handed to try_put, waker the tag of the waker it was polled  *)
(* with, index what preserve_space returned, ret what try_put returned.    *)
(***************************************************************************)
NewSlab ==
  [map |-> <<>>, prev |-> <<>>, op |-> "", fut |-> NoneFut,
   waker |-> FutureEvent(0), index |-> 0, ret |-> <<>>]

\* Futures that wait for the bus when they are first polled.
StoredFutures == { LayoutFut(d) : d \in Destinations }

\* The futures handed to try_put: waiting ones, ones that complete on the
\* first poll with an event, and remove finalizations of every record.
SlabFutures ==
  StoredFutures
    \cup { [LayoutFut(d) EXCEPT !.res = "ok"] : d \in Destinations }
    \cup { RemoveFut(d, n) : d \in Destinations, n \in NocRecords }

\* The slabs of at most MaxSlots slots.
Slabs ==
  UNION { [1..n -> StoredFutures \cup { NoneFut }] : n \in 0..MaxSlots }

VARIABLES
  polled,        \* LoopInner.polled
  ternimated,    \* LoopInner.ternimated
  items,         \* LoopInner.items: destination -> item
  futures,       \* LoopInner.futures: the slab, slot i at position i + 1
  ready_tokens,  \* WakerData.ready_tokens
  regq,          \* messages queued in the StatusNotifierItemRegistered stream
  regEnded,      \* the StatusNotifierItemRegistered stream reached its end
  status,        \* "ok"; "panicked" once a poll panicked; "hung" once a
                 \* poll entered a drain that never returns
  ret,           \* what the last poll_next returned ("" before the first)
  ready_events,  \* the events the last poll_next collected
  batches,       \* the batches returned to the consumer so far
  bootItems,     \* RegisteredStatusNotifierItems when create_stream ran
  nInputs,       \* signals the bus delivered so far
  okBringups,    \* per destination: bring-ups whose round trips succeeded
  lostSeen,      \* destinations whose tracked item received its disconnect
  unregSeen,     \* tracked destinations the watcher reported unregistered
  otherSeen,     \* destinations whose tracked item received another record
  sigLog,        \* the signals queued in item signal streams, in order
  act,           \* the Client::activate call in progress
  pa,            \* parse_address: the address given and the pair returned
  boot,          \* the Client::create_stream call in progress
  chan,          \* the channel client: its shared state, tasks and channel
  mx,            \* the loop, its ready set and the mutex, statement by statement
  fm             \* the slab on its own and the last operation called on it

vars ==
  <<polled, ternimated, items, futures, ready_tokens, regq, regEnded, status,
    ret, ready_events, batches, bootItems, nInputs, okBringups, lostSeen,
    unregSeen, otherSeen, sigLog, act, pa, boot, chan, mx, fm>>

\* Client::create_stream followed by LoopInner::new: no item, an empty slab,
\* no initial future; the watcher may already know items.
InitLoop ==
  /\ polled = FALSE
  /\ ternimated = FALSE
  /\ items = <<>>
  /\ futures = <<>>
  /\ ready_tokens = <<>>
  /\ regq = <<>>
  /\ regEnded = FALSE
  /\ status = "ok"
  /\ ret = ""
  /\ ready_events = <<>>
  /\ batches = <<>>
  /\ bootItems = { <<":1.50">> }
  /\ nInputs = 0
  /\ okBringups = [d \in Destinations |-> 0]
  /\ lostSeen = {}
  /\ unregSeen = {}
  /\ otherSeen = {}
  /\ sigLog = <<>>

\* No activate call is in progress and no address is being parsed.
Init ==
  /\ InitLoop
  /\ act = Idle
  /\ pa = [input |-> <<>>, out |-> Unparsed]
  /\ boot = NotBooted
  /\ chan = NewClient
  /\ mx = NewLoop
  /\ fm = NewSlab

(***************************************************************************)
(* The loop's one operation.                                               *)
(***************************************************************************)
\* The end of poll_next on the loop state L the poll produced: a panic
\* unwinds out of the poll and a drain that never returns keeps the poll
\* from returning; otherwise the collected events are returned.
poll_return(L) ==
  IF L.status # "ok"
    THEN /\ status' = L.status
         /\ UNCHANGED <<polled, items, futures, ready_tokens, regq, ret,
                        ready_events, batches>>
    ELSE /\ polled' = TRUE
         /\ items' = L.items
         /\ futures' = L.futures
         /\ regq' = L.regq
         /\ ready_tokens' = <<>>
         /\ ready_events' = L.out
         /\ ret' = poll_result(ternimated, L.out)
         /\ batches' = IF poll_result(ternimated, L.out) = "Some"
                         THEN Append(batches, L.out) ELSE batches
         /\ UNCHANGED status

\* Stream::poll_next for LoopInner.
Poll ==
  /\ status = "ok"
  /\ poll_return(IF ~polled
                   THEN first_poll(LoopState(items, futures, regq, regEnded))
                   ELSE DrainTokens(LoopState(items, futures, regq, regEnded),
                                    ready_tokens))
  /\ UNCHANGED <<act, pa, boot, chan, mx, fm, otherSeen, ternimated, regEnded, bootItems, nInputs, okBringups,
                 lostSeen, unregSeen, sigLog>>

(***************************************************************************)
(* The environment: the bus delivers signals and replies.                  *)
(***************************************************************************)
\* LoopWaker::wake_by_ref on the tokens tk, in order.
wake_by_ref(tk) == ready_tokens' = ready_tokens \o tk

\* The watcher announces the item at address a.
Register(a) ==
  /\ status = "ok"
  /\ ~regEnded
  /\ nInputs < MaxInputs
  /\ nInputs' = nInputs + 1
  /\ regq' = Append(regq, a)
  /\ IF polled
       THEN Len(ready_tokens) < MaxReady /\ wake_by_ref(<<WakeNewItem>>)
       ELSE UNCHANGED ready_tokens
  /\ UNCHANGED <<act, pa, boot, chan, mx, fm, otherSeen, polled, ternimated, regEnded, items, futures, status, ret, ready_events,
                 batches, bootItems, okBringups, lostSeen, unregSeen, sigLog>>

\* The last reply the future in slot i waits for arrives with outcome o.
Reply(i, o) ==
  /\ status = "ok"
  /\ i < Len(futures)
  /\ futures[i + 1].res = "wait"
  /\ o \in Outcomes(futures[i + 1])
  /\ Len(ready_tokens) < MaxReady
  /\ LET fut == futures[i + 1]
         ok == fut.k = "new" /\ o \in {"ok", "ok_menu"}
     IN /\ futures' = [futures EXCEPT ![i + 1] =
                         [fut EXCEPT !.res = o,
                                     !.item = IF ok THEN NewItem(o = "ok_menu")
                                              ELSE NoItem]]
        /\ okBringups' = IF ok THEN [okBringups EXCEPT ![fut.d] = @ + 1]
                         ELSE okBringups
  /\ wake_by_ref(<<FutureEvent(i)>>)
  /\ UNCHANGED <<act, pa, boot, chan, mx, fm, otherSeen, polled, ternimated, regEnded, items, regq, status, ret, ready_events,
                 batches, bootItems, nInputs, lostSeen, unregSeen, sigLog>>

\* The future in slot i is woken without its last reply: an intermediate
\* round trip completed, or the same wake is delivered again.
FutureWake(i) ==
  /\ status = "ok"
  /\ i < Len(futures)
  /\ futures[i + 1] # NoneFut
  /\ Len(ready_tokens) < MaxReady
  /\ wake_by_ref(<<FutureEvent(i)>>)
  /\ UNCHANGED <<act, pa, boot, chan, mx, fm, otherSeen, polled, ternimated, regEnded, items, futures, regq, status, ret,
                 ready_events, batches, bootItems, nInputs, okBringups,
                 lostSeen, unregSeen, sigLog>>

\* The item at destination d emits the signal `member` on its interface: it
\* is queued in the signal stream of the tracked item, which wakes the loop,
\* and in the streams of the bring-ups of d that already subscribed.
ItemSignal(d, member) ==
  /\ status = "ok"
  /\ nInputs < MaxInputs
  /\ d \in DOMAIN items => "PropertyChange" \notin items[d].end
  /\ \/ d \in DOMAIN items
     \/ \E i \in 1..Len(futures) :
          futures[i].k = "new" /\ futures[i].d = d
            /\ futures[i].res \in {"ok", "ok_menu"}
  /\ nInputs' = nInputs + 1
  /\ sigLog' = Append(sigLog, [d |-> d, m |-> member])
  /\ items' = [x \in DOMAIN items |->
                 IF x = d THEN [items[x] EXCEPT !.pq = Append(@, member)]
                 ELSE items[x]]
  /\ futures' = [i \in 1..Len(futures) |->
                   IF futures[i].k = "new" /\ futures[i].d = d
                        /\ futures[i].res \in {"ok", "ok_menu"}
                     THEN [futures[i] EXCEPT !.item.pq = Append(@, member)]
                     ELSE futures[i]]
  /\ IF d \in DOMAIN items
       THEN Len(ready_tokens) < MaxReady
              /\ wake_by_ref(<<ItemUpdate(d, "PropertyChange")>>)
       ELSE UNCHANGED ready_tokens
  /\ UNCHANGED <<act, pa, boot, chan, mx, fm, otherSeen, polled, ternimated, regEnded, regq, status, ret, ready_events, batches,
                 bootItems, okBringups, lostSeen, unregSeen>>

\* The menu of the tracked item d emits LayoutUpdated.
LayoutUpdated(d) ==
  /\ status = "ok"
  /\ nInputs < MaxInputs
  /\ d \in DOMAIN items
  /\ items[d].menu
  /\ "LayoutUpdate" \notin items[d].end
  /\ Len(ready_tokens) < MaxReady
  /\ nInputs' = nInputs + 1
  /\ items' = [items EXCEPT ![d].lq = @ + 1]
  /\ wake_by_ref(<<ItemUpdate(d, "LayoutUpdate")>>)
  /\ UNCHANGED <<act, pa, boot, chan, mx, fm, otherSeen, polled, ternimated, regEnded, futures, regq, status, ret, ready_events,
                 batches, bootItems, okBringups, lostSeen, unregSeen, sigLog>>

\* The tracked items whose name-owner-changed stream is open.
Listening == { d \in DOMAIN items : "Disconnect" \notin items[d].end }

\* The bus emits the NameOwnerChanged record n: every open name-owner-changed
\* stream receives it (the subscriptions are not filtered by name); the
\* streams of the tracked items wake the loop, in the order `order`.
NameOwnerChanged(n, order) ==
  /\ status = "ok"
  /\ nInputs < MaxInputs
  /\ order \in [1..Cardinality(Listening) -> Listening]
  /\ \A d \in Listening : \E i \in DOMAIN order : order[i] = d
  /\ Len(ready_tokens) + Len(order) <= MaxReady
  /\ nInputs' = nInputs + 1
  /\ items' = [x \in DOMAIN items |->
                 IF x \in Listening THEN [items[x] EXCEPT !.dq = Append(@, n)]
                 ELSE items[x]]
  /\ futures' = [i \in 1..Len(futures) |->
                   IF futures[i].k = "new" /\ futures[i].res \in {"ok", "ok_menu"}
                     THEN [futures[i] EXCEPT !.item.dq = Append(@, n)]
                     ELSE futures[i]]
  /\ wake_by_ref([i \in 1..Len(order) |-> ItemUpdate(order[i], "Disconnect")])
  /\ lostSeen' = lostSeen \cup { d \in Listening : IsDisconnect(n, d) }
  /\ otherSeen' = otherSeen \cup { d \in Listening : ~IsDisconnect(n, d) }
  /\ UNCHANGED <<act, pa, boot, chan, mx, fm, polled, ternimated, regEnded, regq, status, ret, ready_events, batches,
                 bootItems, okBringups, unregSeen, sigLog>>

\* The connection stops delivering StatusNotifierItemRegistered: the stream
\* reaches end-of-stream, which wakes its waker.
RegistrationStreamEnd ==
  /\ status = "ok"
  /\ ~regEnded
  /\ nInputs < MaxInputs
  /\ nInputs' = nInputs + 1
  /\ regEnded' = TRUE
  /\ IF polled
       THEN Len(ready_tokens) < MaxReady /\ wake_by_ref(<<WakeNewItem>>)
       ELSE UNCHANGED ready_tokens
  /\ UNCHANGED <<act, pa, boot, chan, mx, fm, otherSeen, polled, ternimated, items, futures, regq, status, ret,
                 ready_events, batches, bootItems, okBringups, lostSeen, unregSeen, sigLog>>

\* The stream w of the tracked item d reaches end-of-stream, which wakes
\* its waker.
ItemStreamEnd(d, w) ==
  /\ status = "ok"
  /\ nInputs < MaxInputs
  /\ d \in DOMAIN items
  /\ w \notin items[d].end
  /\ w = "LayoutUpdate" => items[d].menu
  /\ Len(ready_tokens) < MaxReady
  /\ nInputs' = nInputs + 1
  /\ items' = [items EXCEPT ![d].end = @ \cup {w}]
  /\ wake_by_ref(<<ItemUpdate(d, w)>>)
  /\ UNCHANGED <<act, pa, boot, chan, mx, fm, otherSeen, polled, ternimated, futures, regq, regEnded, status, ret,
                 ready_events, batches, bootItems, okBringups, lostSeen, unregSeen, sigLog>>

\* The watcher emits StatusNotifierItemUnregistered for the tracked item d,
\* whose bus name stays owned: no stream of the loop carries the signal.
ItemUnregistered(d) ==
  /\ status = "ok"
  /\ nInputs < MaxInputs
  /\ d \in DOMAIN items
  /\ d \notin unregSeen
  /\ nInputs' = nInputs + 1
  /\ unregSeen' = unregSeen \cup {d}
  /\ UNCHANGED <<act, pa, boot, chan, mx, fm, otherSeen, polled, ternimated, items, futures, ready_tokens, regq,
                 regEnded, status, ret, ready_events, batches, bootItems,
                 okBringups, lostSeen, sigLog>>

\* The bus sends NameAcquired(name) to the loop's connection: LoopInner
\* holds no stream of that signal, so nothing of the loop changes.
NameAcquired(name) ==
  /\ status = "ok"
  /\ nInputs < MaxInputs
  /\ nInputs' = nInputs + 1
  /\ UNCHANGED <<act, pa, boot, chan, mx, fm, otherSeen, polled, ternimated, items, futures, ready_tokens, regq,
                 regEnded, status, ret, ready_events, batches, bootItems,
                 okBringups, lostSeen, unregSeen, sigLog>>

Next ==
  \/ Poll
  \/ \E a \in Addresses : Register(a)
  \/ \E i \in 0..(Len(futures) - 1) : \E o \in Outcomes(futures[i + 1]) : Reply(i, o)
  \/ \E i \in 0..(Len(futures) - 1) : FutureWake(i)
  \/ \E d \in Destinations : \E member \in Members : ItemSignal(d, member)
  \/ \E d \in Destinations : LayoutUpdated(d)
  \/ \E n \in NocRecords :
       \E order \in [1..Cardinality(Listening) -> Listening] :
         NameOwnerChanged(n, order)
  \/ \E d \in Destinations : ItemUnregistered(d)
  \/ RegistrationStreamEnd
  \/ \E d \in Destinations : \E w \in ItemWakeFrom : ItemStreamEnd(d, w)
  \/ \E name \in AcquiredNames : NameAcquired(name)

Spec == Init /\ [][Next]_vars

(***************************************************************************)
(* Client::activate, one call at a time.                                   *)
(***************************************************************************)
loopVars ==
  <<polled, ternimated, items, futures, ready_tokens, regq, regEnded, status,
    ret, ready_events, batches, bootItems, nInputs, okBringups, lostSeen,
    unregSeen, otherSeen, sigLog>>

\* The caller invokes activate(req).
ActivateCall(req) ==
  /\ act.pc = "idle"
  /\ act' = [Idle EXCEPT !.pc = "proxy", !.req = req]
  /\ UNCHANGED <<loopVars, pa, boot, chan, mx, fm>>

\* The proxy to the item or to its menu is built, or building it fails and
\* the error is returned.
ActivateProxy(o) ==
  /\ act.pc = "proxy"
  /\ act' = IF o = "ok" THEN [act EXCEPT !.pc = "call", !.proxy = o]
            ELSE [act EXCEPT !.pc = "done", !.proxy = o,
                             !.result = activate_result(o, "")]
  /\ UNCHANGED <<loopVars, pa, boot, chan, mx, fm>>

\* The Event, Activate or SecondaryActivate call ends under the timeout.
ActivateSend(o) ==
  /\ act.pc = "call"
  /\ act' = [act EXCEPT !.pc = "done", !.call = o,
                        !.logged = timeout_event(o),
                        !.result = activate_result(act.proxy, o)]
  /\ UNCHANGED <<loopVars, pa, boot, chan, mx, fm>>

\* The caller takes the result.
ActivateReturn ==
  /\ act.pc = "done"
  /\ act' = Idle
  /\ UNCHANGED <<loopVars, pa, boot, chan, mx, fm>>

NextActivate ==
  \/ \E req \in ActivateRequests : ActivateCall(req)
  \/ \E o \in ProxyOutcomes : ActivateProxy(o)
  \/ \E o \in CallOutcomes : ActivateSend(o)
  \/ ActivateReturn

SpecActivate == Init /\ [][NextActivate]_vars

(***************************************************************************)
(* Client::create_stream, step by step.                                    *)
(***************************************************************************)
\* StatusNotifierWatcher::new().attach_to(&connection).await?
BootAttach(o) ==
  /\ boot.pc = "attach"
  /\ boot' = boot_step(boot, "attach_to", o, "proxy")
  /\ UNCHANGED <<loopVars, act, pa, chan, mx, fm>>

\* StatusNotifierWatcherProxy::new(&connection).await?
BootProxy(o) ==
  /\ boot.pc = "proxy"
  /\ boot' = boot_step(boot, "watcher_proxy", o, "request")
  /\ UNCHANGED <<loopVars, act, pa, chan, mx, fm>>

\* One iteration of the name loop: i += 1, the candidate is requested and
\* the reply decides.  The bus owns fewer than MaxTries of the candidates.
BootRequestName(reply) ==
  /\ boot.pc = "request"
  /\ reply \in { "Exists", "AlreadyOwner" } => boot.i + 1 < MaxTries
  /\ boot' = [boot EXCEPT
       !.i = boot.i + 1,
       !.log = Append(@, [op |-> "request_name",
                          name |-> HostName(boot.i + 1), reply |-> reply]),
       !.pc = request_name_next(reply),
       !.result = IF reply = "Err" THEN "Err" ELSE boot.result]
  /\ UNCHANGED <<loopVars, act, pa, chan, mx, fm>>

\* watcher_proxy.register_status_notifier_host(&wellknown).await?
BootRegisterHost(o) ==
  /\ boot.pc = "register"
  /\ boot' = [boot_step(boot, "register_host", o, "subscribe") EXCEPT
               !.log[Len(boot.log) + 1].name = HostName(boot.i)]
  /\ UNCHANGED <<loopVars, act, pa, chan, mx, fm>>

\* watcher_proxy.receive_status_notifier_item_registered().await? and
\* Ok(LoopInner::new(..)).
BootSubscribe(o) ==
  /\ boot.pc = "subscribe"
  /\ boot' = [boot_step(boot, "receive_item_registered", o, "done") EXCEPT
               !.result = IF o = "ok" THEN "Ok" ELSE "Err"]
  /\ UNCHANGED <<loopVars, act, pa, chan, mx, fm>>

\* The caller takes the result; create_stream may be called again.
BootReturn ==
  /\ boot.pc = "done"
  /\ boot' = NotBooted
  /\ UNCHANGED <<loopVars, act, pa, chan, mx, fm>>

NextBoot ==
  \/ \E o \in StepOutcomes : BootAttach(o)
  \/ \E o \in StepOutcomes : BootProxy(o)
  \/ \E reply \in RequestNameReplies : BootRequestName(reply)
  \/ \E o \in StepOutcomes : BootRegisterHost(o)
  \/ \E o \in StepOutcomes : BootSubscribe(o)
  \/ BootReturn

SpecBoot == Init /\ [][NextBoot]_vars

(***************************************************************************)
(* The channel client's tasks.                                             *)
(***************************************************************************)
\* A task takes the next address (StatusNotifierItemRegistered, or one of
\* RegisteredStatusNotifierItems) and runs handle_item on it.
ChanHandleItem(task, a, o, menu) ==
  /\ chan.signals < MaxSignals
  /\ task \in chan.tasks
  /\ chan' = handle_item([chan EXCEPT !.signals = @ + 1], task, a, o, menu)
  /\ UNCHANGED <<loopVars, act, pa, boot, mx, fm>>

\* The initial items task has handled every initial item.
ChanInitialDone ==
  /\ "initial items" \in chan.tasks
  /\ chan' = [chan EXCEPT !.tasks = @ \ {"initial items"}]
  /\ UNCHANGED <<loopVars, act, pa, boot, mx, fm>>

\* NameAcquired(name) reaches the name_acquired task.
ChanNameAcquired(name, order) ==
  /\ chan.signals < MaxSignals
  /\ order \in KeyOrders(chan.state)
  /\ chan' = name_acquired([chan EXCEPT !.signals = @ + 1], name, order)
  /\ UNCHANGED <<loopVars, act, pa, boot, mx, fm>>

\* The owner of d left the bus and a watcher of d takes the
\* NameOwnerChanged signal; o is the outcome of the unregistration.
ChanDisconnect(d, o) ==
  /\ chan.signals < MaxSignals
  /\ chan.watchers[d] > 0
  /\ chan' = disconnected([chan EXCEPT !.signals = @ + 1], d)
  /\ UNCHANGED <<loopVars, act, pa, boot, mx, fm>>

NextChannel ==
  \/ \E task \in ItemTasks, a \in Addresses,
        o \in StepOutcomes, menu \in BOOLEAN :
        ChanHandleItem(task, a, o, menu)
  \/ ChanInitialDone
  \/ \E name \in AcquiredNames :
        \E order \in KeyOrders(chan.state) : ChanNameAcquired(name, order)
  \/ \E d \in Destinations, o \in StepOutcomes : ChanDisconnect(d, o)

SpecChannel == Init /\ [][NextChannel]_vars

(***************************************************************************)
(* poll_next and wake_by_ref, statement by statement.                      *)
(***************************************************************************)
\* The executor calls poll_next: the first poll creates the WakerData and
\* runs first_poll without the mutex; a later poll locks the mutex,
\* refreshes the root waker and starts to drain the ready set.
PollBegin ==
  /\ mx.status = "ok" /\ mx.pc = "idle"
  /\ mx.done < MaxPolls
  /\ mx' = IF ~mx.polled
             THEN [mx EXCEPT !.pc = "first", !.polled = TRUE, !.woken = FALSE,
                             !.tokens = <<>>]
             ELSE [mx EXCEPT !.pc = "drain", !.lock = "poll",
                             !.woken = FALSE]
  /\ UNCHANGED <<loopVars, act, pa, boot, chan, fm>>

\* poll_item_stream takes a registration and handle_new_item puts its
\* bring-up: in first_poll, or in wake_from(NewItem).
PollItemStream(ready, sw, relock) ==
  /\ mx.status = "ok"
  /\ mx.pc = "first" \/ (mx.pc = "drain" /\ mx.tokens # <<>>
                                          /\ Head(mx.tokens) = WakeNewItem)
  /\ mx.regq > 0
  /\ mx' = slab_try_put([mx EXCEPT !.regq = @ - 1],
                        preserve_space(mx.slots), ready, sw, relock)
  /\ UNCHANGED <<loopVars, act, pa, boot, chan, fm>>

\* wake_from(NewItem) returns: the registration stream is Pending.
WakeFromNewItem ==
  /\ mx.status = "ok" /\ mx.pc = "drain"
  /\ mx.tokens # <<>> /\ Head(mx.tokens) = WakeNewItem
  /\ mx.regq = 0
  /\ mx' = dispatched([mx EXCEPT !.tokens = Tail(@)], WakeNewItem)
  /\ UNCHANGED <<loopVars, act, pa, boot, chan, fm>>

\* wake_from(FutureEvent(i)) on the next token of the drain.
WakeFromFuture(ready, sw, relock) ==
  /\ mx.status = "ok" /\ mx.pc = "drain"
  /\ mx.tokens # <<>> /\ Head(mx.tokens).t = "FutureEvent"
  /\ mx' = slab_wake_from([mx EXCEPT !.tokens = Tail(@)],
                          Head(mx.tokens).i, ready, sw, relock)
  /\ UNCHANGED <<loopVars, act, pa, boot, chan, fm>>

\* poll_next returns: first_poll is through the registration stream, or the
\* drain is through the ready set and the guard is dropped.
PollEnd ==
  /\ mx.status = "ok"
  /\ (mx.pc = "first" /\ mx.regq = 0) \/ (mx.pc = "drain" /\ mx.tokens = <<>>)
  /\ mx' = [mx EXCEPT !.pc = "idle", !.lock = "free", !.done = @ + 1]
  /\ UNCHANGED <<loopVars, act, pa, boot, chan, fm>>

\* The watcher announces an item: the registration is queued and, once the
\* stream holds a waker, the bus thread calls wake_by_ref.
BusRegistration ==
  /\ mx.status = "ok"
  /\ mx.inputs < MaxInputs
  /\ mx' = [mx EXCEPT !.regq = @ + 1, !.inputs = @ + 1,
                      !.calling = IF mx.polled THEN @ \cup {WakeNewItem}
                                  ELSE @]
  /\ UNCHANGED <<loopVars, act, pa, boot, chan, fm>>

\* The bus thread calls wake_by_ref on the waker of the future in slot i.
BusWake(i) ==
  /\ mx.status = "ok"
  /\ mx.inputs < MaxInputs
  /\ i < Len(mx.slots) /\ mx.slots[i + 1] # NoneFut
  /\ mx' = [mx EXCEPT !.inputs = @ + 1, !.calling = @ \cup {FutureEvent(i)}]
  /\ UNCHANGED <<loopVars, act, pa, boot, chan, fm>>

\* A wake_by_ref call of the bus thread gets the mutex: it waits while
\* poll_next holds it.
WakeByRef(tk) ==
  /\ mx.status = "ok"
  /\ tk \in mx.calling
  /\ mx.lock = "free"
  /\ Len(mx.tokens) < MaxReady
  /\ mx' = push_token([mx EXCEPT !.calling = @ \ {tk}], tk)
  /\ UNCHANGED <<loopVars, act, pa, boot, chan, fm>>

NextWake ==
  \/ PollBegin
  \/ \E ready, sw \in BOOLEAN, relock \in RelockOutcomes :
        PollItemStream(ready, sw, relock)
  \/ WakeFromNewItem
  \/ \E ready, sw \in BOOLEAN, relock \in RelockOutcomes :
        WakeFromFuture(ready, sw, relock)
  \/ PollEnd
  \/ BusRegistration
  \/ \E i \in 0..(MaxInputs - 1) : BusWake(i)
  \/ \E tk \in mx.calling : WakeByRef(tk)

SpecWake == Init /\ [][NextWake]_vars

(***************************************************************************)
(* parse_address on its own: a caller holds an address, parse_address      *)
(* returns the pair, and the caller takes the next address.                *)
(***************************************************************************)
\* A caller is about to parse any of the addresses.
InitParse ==
  /\ InitLoop
  /\ act = Idle
  /\ pa \in [input : AddressInputs, out : {Unparsed}]
  /\ boot = NotBooted
  /\ chan = NewClient
  /\ mx = NewLoop
  /\ fm = NewSlab

\* parse_address(pa.input) returns.
Parse ==
  /\ pa.out = Unparsed
  /\ pa' = [pa EXCEPT !.out = parse_address(pa.input)]
  /\ UNCHANGED <<loopVars, act, boot, chan, mx, fm>>

\* The next address arrives (handle_item and handle_new_item run once per
\* address named by the watcher).
NextAddress(a) ==
  /\ pa.out # Unparsed
  /\ pa' = [input |-> a, out |-> Unparsed]
  /\ UNCHANGED <<loopVars, act, boot, chan, mx, fm>>

NextParse ==
  \/ Parse
  \/ \E a \in AddressInputs : NextAddress(a)

SpecParse == InitParse /\ [][NextParse]_vars

(***************************************************************************)
(* The slab on its own: a slab of any shape, on which preserve_space and   *)
(* try_put are called.                                                     *)
(***************************************************************************)
InitSlab ==
  /\ InitLoop
  /\ act = Idle
  /\ pa = [input |-> <<>>, out |-> Unparsed]
  /\ boot = NotBooted
  /\ chan = NewClient
  /\ mx = NewLoop
  /\ fm \in [map : Slabs, prev : { <<>> }, op : { "" }, fut : { NoneFut },
              waker : { FutureEvent(0) }, index : { 0 }, ret : { <<>> }]

\* FutureMap::preserve_space is called.
PreserveSpace ==
  /\ preserve_space(fm.map) < MaxSlots
  /\ fm' = [NewSlab EXCEPT
              !.map = reserved(fm.map, preserve_space(fm.map)),
              !.prev = fm.map,
              !.op = "preserve_space",
              !.index = preserve_space(fm.map)]
  /\ UNCHANGED <<loopVars, act, pa, boot, chan, mx>>

\* FutureMap::try_put(fut) is called.
TryPut(fut) ==
  /\ preserve_space(fm.map) < MaxSlots
  /\ fm' = [NewSlab EXCEPT
              !.map = try_put(LoopState(<<>>, fm.map, <<>>, FALSE), fut).futures,
              !.prev = fm.map,
              !.op = "try_put",
              !.fut = fut,
              !.waker = FutureEvent(preserve_space(fm.map)),
              !.ret = try_put(LoopState(<<>>, fm.map, <<>>, FALSE), fut).les]
  /\ UNCHANGED <<loopVars, act, pa, boot, chan, mx>>

NextSlab ==
  \/ PreserveSpace
  \/ \E fut \in SlabFutures : TryPut(fut)

SpecSlab == InitSlab /\ [][NextSlab]_vars

(***************************************************************************)
(* The consumer's observed stream.                                         *)
(***************************************************************************)
\* The events of the batches bs, each with the number of its batch.
RECURSIVE Tagged(_, _)
Tagged(bs, b) ==
  IF bs = <<>> THEN <<>>
  ELSE [i \in 1..Len(Head(bs)) |-> [e |-> Head(bs)[i], b |-> b]]
         \o Tagged(Tail(bs), b + 1)

Observed == Tagged(batches, 1)

\* The observed events of destination d, in order.
IsOf(d, x) == x.e.d = d
EventsOf(d) == SelectSeq(Observed, LAMBDA x : IsOf(d, x))

\* How many Add events of d were observed.
Adds(d) == Cardinality({ i \in 1..Len(Observed) :
                           Observed[i].e.t = "Add" /\ Observed[i].e.d = d })

AllFree == \A i \in 1..Len(futures) : futures[i] = NoneFut

\* Nothing is queued or in flight: every signal delivered so far has been
\* dispatched and every future has resolved.
Quiescent ==
  /\ polled
  /\ ready_tokens = <<>>
  /\ regq = <<>>
  /\ AllFree
  /\ \A d \in DOMAIN items :
       items[d].dq = <<>> /\ items[d].pq = <<>> /\ items[d].lq = 0

\* The loop will return no further batch for what was delivered so far.
Settled == status = "panicked" \/ Quiescent

(***************************************************************************)
(* Claims.                                                                 *)
(***************************************************************************)
\* C1: for every destination D the observed events of D form a word of
\* Add (Update)* Remove?; in particular no second Add of D is observed.
C1_AddUpdateRemoveWord ==
  \A d \in Destinations :
    LET w == EventsOf(d)
    IN \A i \in 1..Len(w) :
         /\ i = 1 => w[i].e.t = "Add"
         /\ i > 1 => w[i].e.t = "Update" \/ (i = Len(w) /\ w[i].e.t = "Remove")

\* C2: Remove(D) is observed at most once and no event of D is observed
\* after it.
C2_NothingAfterRemove ==
  \A d \in Destinations :
    LET w == EventsOf(d)
    IN \A i \in 1..Len(w) : w[i].e.t = "Remove" => i = Len(w)

\* C3: every observed Update(D) and Remove(D) is preceded by an Add(D):
\* the first observed event of D is an Add.
C3_AddPrecedesUpdateAndRemove ==
  \A d \in Destinations :
    \A j \in 1..Len(Observed) :
      (Observed[j].e.d = d /\ Observed[j].e.t \in {"Update", "Remove"})
        => \E i \in 1..(j - 1) : Observed[i].e.d = d /\ Observed[i].e.t = "Add"

\* An Update from a signal and a Remove have both been observed.
C3_Witness ==
  /\ \E j \in 1..Len(Observed) :
       Observed[j].e.t = "Update" /\ Observed[j].e.k # "Menu"
  /\ \E j \in 1..Len(Observed) : Observed[j].e.t = "Remove"

\* C4: a batch returned by poll_next is never empty, and a poll that
\* collected no event while the loop is not terminated returns Pending.
C4_BatchNonEmpty ==
  /\ \A i \in 1..Len(batches) : batches[i] # <<>>
  /\ ret = "Some" => ready_events # <<>>
  /\ (ret # "" /\ ready_events = <<>> /\ ~ternimated) => ret = "Pending"

\* A poll returned Pending after an earlier poll returned a batch.
C4_Witness == ret = "Pending" /\ batches # <<>>

\* C5: once the loop can return nothing more for what was delivered, every
\* bring-up whose round trips succeeded has had its Add observed.
C5_RegistrationYieldsAdd ==
  Settled => \A d \in Destinations : Adds(d) >= okBringups[d]

\* C6: the items the watcher already listed when the stream was created are
\* brought up without a registration signal: once the stream was polled and
\* nothing is in flight, with no signal delivered, their Add was observed.
C6_BootItemsSeeded ==
  (Quiescent /\ status = "ok" /\ nInputs = 0)
    => \A a \in bootItems : Adds(parse_address(a)[1]) >= 1

\* C7: once the loop can return nothing more for what was delivered, every
\* tracked destination whose disconnect record arrived had its Remove
\* observed.
C7_DisconnectYieldsRemove ==
  Settled =>
    \A d \in lostSeen :
      \E j \in 1..Len(Observed) : Observed[j].e = Remove(d)

\* The update kind the claim names for each known signal member.
ExpectedKind(member) ==
  IF member = NewAttentionIcon THEN "AttentionIcon"
  ELSE IF member = NewIcon THEN "Icon"
  ELSE IF member = NewOverlayIcon THEN "OverlayIcon"
  ELSE IF member = NewStatus THEN "Status"
  ELSE IF member = NewTitle THEN "Title"
  ELSE "Tooltip"

\* C8: a refetch for one of the six known signals that fetched a value, of
\* whatever type, resolves to one Update of the item with the kind of the
\* signal.
C8_KnownSignalYieldsUpdate ==
  \A i \in 1..Len(futures) :
    (futures[i].k = "upd" /\ futures[i].m \in KnownMembers
       /\ futures[i].res \in Values)
      => LET r == PollFuture(futures[i])
         IN /\ r.ready
            /\ r.le.t = "Updata"
            /\ r.le.ev.t = "Update"
            /\ r.le.ev.d = futures[i].d
            /\ r.le.ev.k = ExpectedKind(futures[i].m)

C10_AddDespiteLaterFailure ==
  \A i \in 1..Len(futures) :
    (futures[i].k = "new" /\ futures[i].res \in {"ok", "ok_menu", "layout_err"})
      => PollFuture(futures[i]).le.t = "Add"

\* C11: once nothing is queued or in flight, a tracked destination that the
\* watcher reported unregistered is no longer in the items map and its
\* Remove was observed.
C11_UnregisteredYieldsRemove ==
  (Quiescent /\ status = "ok") =>
    \A d \in unregSeen :
      /\ d \notin DOMAIN items
      /\ \E j \in 1..Len(Observed) : Observed[j].e = Remove(d)

\* The poll drains the registration stream: the first poll, or a poll that
\* dispatches a NewItem token.
DrainsRegistration ==
  ~polled \/ \E k \in DOMAIN ready_tokens : ready_tokens[k] = WakeNewItem

\* C12: a poll that meets the end of the registration stream sets the
\* terminated flag and returns Ready(None).
C12_EndOfStreamTerminates ==
  [][(Poll /\ regEnded /\ DrainsRegistration)
       => (ternimated' /\ ret' = "None")]_vars

\* The poll dispatches the token of a stream of a tracked item that reached
\* end-of-stream.
DrainsEndedItemStream ==
  /\ polled
  /\ \E k \in DOMAIN ready_tokens :
       /\ ready_tokens[k].t = "ItemUpdate"
       /\ ready_tokens[k].d \in DOMAIN items
       /\ ready_tokens[k].w \in items[ready_tokens[k].d].end

\* C13: a poll that drains an item stream that reached end-of-stream
\* returns, and the loop is not terminated.
C13_ItemStreamEndReturns ==
  [][(Poll /\ DrainsEndedItemStream)
       => (status' # "hung" /\ ~ternimated')]_vars

\* The slab slot i holds a future of one of the kinds ks that resolved with
\* one of the outcomes os, and its token is queued.
Dispatches(ks, os) ==
  /\ polled
  /\ \E k \in DOMAIN ready_tokens :
       /\ ready_tokens[k].t = "FutureEvent"
       /\ ready_tokens[k].i < Len(futures)
       /\ futures[ready_tokens[k].i + 1].k \in ks
       /\ futures[ready_tokens[k].i + 1].res \in os

\* C14: a poll that dispatches a bring-up whose properties fetch failed does
\* not panic and does not terminate the loop, and no Add is ever observed
\* for a destination beyond its successful bring-ups.
C14_FailedBringupSkipped ==
  [][(Poll /\ Dispatches({"new"}, {"props_err"}))
       => /\ status' = "ok"
          /\ ~ternimated'
          /\ \A d \in Destinations : Adds(d)' <= okBringups[d]]_vars

\* C15: a poll that dispatches a failed property or layout refetch does not
\* panic, does not terminate the loop and keeps the item of the refetch
\* unless its Remove is returned by the same poll.
C15_FailedRefetchSkipped ==
  [][(Poll /\ Dispatches({"upd", "lay"}, {FetchErr}))
       => /\ status' = "ok"
          /\ ~ternimated'
          /\ \A d \in DOMAIN items :
               d \in DOMAIN items' \/ ret' = "Some"]_vars

\* The loop state of the next poll.
Now == LoopState(items, futures, regq, regEnded)

\* C16: a remove finalization whose unregister call failed still resolves
\* to Remove: dispatching it returns Remove(D) and deletes D from the map.
C16_RemoveDespiteUnregisterFailure ==
  \A i \in 1..Len(futures) :
    (futures[i].k = "rem" /\ futures[i].res = "unregister_err")
      => /\ wake_from(Now, FutureEvent(i - 1)).status = "ok"
         /\ wake_from(Now, FutureEvent(i - 1)).out = <<Remove(futures[i].d)>>
         /\ futures[i].d \notin DOMAIN wake_from(Now, FutureEvent(i - 1)).items

\* A remove finalization whose unregister call failed is in the slab and
\* its item is tracked.
C16_Witness ==
  \E i \in 1..Len(futures) :
    /\ futures[i].k = "rem"
    /\ futures[i].res = "unregister_err"
    /\ futures[i].d \in DOMAIN items

\* C17: a queued signal whose member is none of the six known names makes
\* the decoder neither fail nor produce an event, whatever its refetch
\* returns.
C17_UnknownMemberIgnored ==
  \A d \in DOMAIN items :
    \A k \in 1..Len(items[d].pq) :
      items[d].pq[k] \notin KnownMembers
        => /\ ~PollFuture(UpdateFut(d, items[d].pq[k])).panic
           /\ \A v \in UpdOutcomes :
                to_update_item_event(d, items[d].pq[k], v) = NoLE

\* The known signals of destination d in the order they were queued.
SignalsOf(d) ==
  SelectSeq(sigLog, LAMBDA x : x.d = d /\ x.m \in KnownMembers)

\* C18: two Updates of one destination from signals, in one batch, are in
\* the order of signals of these kinds in the destination's stream.
C18_UpdatesInSignalOrder ==
  \A b \in 1..Len(batches) :
    \A i \in 1..Len(batches[b]) :
      \A j \in (i + 1)..Len(batches[b]) :
        (/\ batches[b][i].t = "Update" /\ batches[b][j].t = "Update"
         /\ batches[b][i].d = batches[b][j].d
         /\ batches[b][i].k # "Menu" /\ batches[b][j].k # "Menu")
          => \E x \in 1..Len(SignalsOf(batches[b][i].d)) :
               \E y \in (x + 1)..Len(SignalsOf(batches[b][i].d)) :
                 /\ ExpectedKind(SignalsOf(batches[b][i].d)[x].m)
                      = batches[b][i].k
                 /\ ExpectedKind(SignalsOf(batches[b][i].d)[y].m)
                      = batches[b][j].k

C20_ErrorsAreReturned ==
  (act.pc = "done" /\ (act.proxy # "ok" \/ act.call = "err"))
    => act.result = "Err"

\* Whether the string s contains the character c.
Contains(s, c) == \E i \in 1..Len(s) : s[i] = c

\* C21: parse_address(A) splits A at its first '/': without a '/' the result
\* is (A, "/StatusNotifierItem"); otherwise it is (the part before the first
\* '/', the rest from that '/' on), so destination \o path = A and the path
\* starts with '/'.
C21_ParseAddressSplitsAtFirstSlash ==
  pa.out # Unparsed =>
    IF ~Contains(pa.input, Slash)
      THEN pa.out = <<pa.input, <<"/", "StatusNotifierItem">> >>
      ELSE /\ pa.out[1] \o pa.out[2] = pa.input
           /\ ~Contains(pa.out[1], Slash)
           /\ Len(pa.out[2]) >= 1
           /\ pa.out[2][1] = Slash

\* An address with two slashes has been parsed.
C21_Witness ==
  /\ pa.out # Unparsed
  /\ \E i, j \in 1..Len(pa.input) :
       i < j /\ pa.input[i] = Slash /\ pa.input[j] = Slash

\* The RequestName calls create_stream has made so far, in order.
Requests == SelectSeq(boot.log, LAMBDA e : e.op = "request_name")

\* C22: the candidates are requested with n = 1, 2, 3, ... in order, the
\* next candidate is requested exactly after Exists or AlreadyOwner, the loop
\* is left only on PrimaryOwner, RegisterStatusNotifierHost is called only
\* then and with the name that got PrimaryOwner, and a failing step is the
\* last step: create_stream returns the error and no loop.
C22_BootstrapNameLoop ==
  /\ \A j \in 1..Len(Requests) : Requests[j].name = HostName(j)
  /\ \A j \in 1..Len(boot.log) :
       /\ (boot.log[j].op = "request_name" /\ j < Len(boot.log))
            => IF boot.log[j].reply \in { "Exists", "AlreadyOwner" }
                 THEN boot.log[j + 1].op = "request_name"
                 ELSE /\ boot.log[j].reply = "PrimaryOwner"
                      /\ boot.log[j + 1].op = "register_host"
       /\ boot.log[j].op = "register_host"
            => /\ j > 1
               /\ boot.log[j - 1].op = "request_name"
               /\ boot.log[j - 1].reply = "PrimaryOwner"
               /\ boot.log[j].name = boot.log[j - 1].name
       /\ boot.log[j].reply \in { "err", "Err" }
            => (j = Len(boot.log) /\ boot.pc = "done" /\ boot.result = "Err")
  /\ (boot.pc \in { "register", "subscribe" } \/ boot.result = "Ok")
       => (Len(Requests) >= 1
           /\ Requests[Len(Requests)].reply = "PrimaryOwner")
  /\ boot.pc = "request"
       => (Len(Requests) >= 1
           => Requests[Len(Requests)].reply \in { "Exists", "AlreadyOwner" })
  /\ boot.result = "Ok"
       => (boot.pc = "done"
           /\ \A j \in 1..Len(boot.log) : boot.log[j].reply # "err")

\* The third candidate became primary owner after Exists and AlreadyOwner,
\* the host was registered and the loop was returned.
C22_Witness ==
  /\ boot.result = "Ok"
  /\ Len(Requests) = 3
  /\ Requests[1].reply = "Exists"
  /\ Requests[2].reply = "AlreadyOwner"

\* The channel client takes NameAcquired for the watcher's name.
Takeover ==
  \E order \in KeyOrders(chan.state) : ChanNameAcquired(WATCHER_BUS, order)

\* C23: on NameAcquired for the watcher's name the channel client sends
\* Remove(d) for every destination d in its state, sends nothing else, and
\* the state is empty afterwards.
C23_TakeoverClearsChannelState ==
  [][Takeover =>
       /\ chan'.state = {}
       /\ Len(chan'.sent) = Len(chan.sent) + Cardinality(chan.state)
       /\ SubSeq(chan'.sent, 1, Len(chan.sent)) = chan.sent
       /\ \A d \in chan.state :
            \E j \in (Len(chan.sent) + 1)..Len(chan'.sent) :
              chan'.sent[j] = Remove(d)]_vars

\* The stream loop's side of a takeover: NameAcquired reaching the loop's
\* connection leaves the items, the slab, the ready set and what the loop
\* returned as they were.
LoopKeepsItemsOnTakeover ==
  [][(\E name \in AcquiredNames : NameAcquired(name)) =>
       UNCHANGED <<items, futures, ready_tokens, regq, ret, ready_events,
                   batches>>]_vars

\* Two items were tracked and a takeover removed both: no disconnect
\* empties the state.
C23_Witness ==
  /\ chan.state = {}
  /\ Len(chan.sent) >= 4
  /\ chan.sent[Len(chan.sent)].t = "Remove"
  /\ chan.sent[Len(chan.sent) - 1].t = "Remove"
  /\ chan.sent[Len(chan.sent)].d # chan.sent[Len(chan.sent) - 1].d

\* The destinations for which an Add was sent and no Remove afterwards.
CurrentItems ==
  { d \in Destinations :
      \E i \in 1..Len(chan.sent) :
        /\ chan.sent[i].t = "Add" /\ chan.sent[i].d = d
        /\ \A j \in (i + 1)..Len(chan.sent) :
             ~(chan.sent[j].t = "Remove" /\ chan.sent[j].d = d) }

\* C24: the keys of the state returned by Client::items() are the
\* destinations for which an Add was sent and no Remove afterwards.
C24_StateHoldsCurrentItems == chan.state = CurrentItems

\* C26: no wake is lost.  After every poll the wakes due by that poll have
\* been dispatched (a wake made between two polls is due by the next poll, a
\* wake made while a poll runs by the poll after it), and the loop never
\* stops with a wake that was not dispatched.
C26_NoWakeLost ==
  /\ mx.pc = "idle" => \A r \in mx.owed : r.due > mx.done
  /\ mx.status # "ok" => mx.owed = {}

\* C27: in the polls after the first the mutex of the ready set is free
\* whenever a source is polled, and no poll ends in a second lock of the
\* mutex by the loop's own thread.
C27_MutexFreeWhileSourcesPolled ==
  /\ mx.status \notin RelockOutcomes
  /\ (mx.pc = "drain" /\ mx.tokens # <<>>) => mx.lock = "free"

\* C28: at the start of every poll each FutureEvent(i) token of the ready
\* set names an occupied slot of the slab.
C28_FutureTokensNameOccupiedSlots ==
  (mx.pc = "idle" /\ mx.status = "ok") =>
    \A k \in 1..Len(mx.tokens) :
      mx.tokens[k].t = "FutureEvent" =>
        /\ mx.tokens[k].i < Len(mx.slots)
        /\ mx.slots[mx.tokens[k].i + 1] # NoneFut

\* What poll_next does on the ready set tokens from the state it is in.
Drained(tokens) == DrainTokens(Now, tokens)

\* C25: a poll whose ready set holds the same token twice dispatches the
\* second copy without a panic and without an event: the poll ends as the
\* poll of the single token would have ended.
C25_DuplicateTokensTolerated ==
  [][(/\ Poll /\ polled
      /\ Len(ready_tokens) = 2
      /\ ready_tokens[1] = ready_tokens[2]
      /\ Drained(<<ready_tokens[1]>>).status = "ok")
       => /\ status' = "ok"
          /\ ready_events' = Drained(<<ready_tokens[1]>>).out
          /\ items' = Drained(<<ready_tokens[1]>>).items
          /\ futures' = Drained(<<ready_tokens[1]>>).futures]_vars

\* The ready set without its last token.
Front(tokens) == SubSeq(tokens, 1, Len(tokens) - 1)

\* The last token of the ready set is an ItemUpdate whose destination is
\* not in the items map when the drain reaches it.
LastTokenIsStale ==
  /\ polled /\ ready_tokens # <<>>
  /\ ready_tokens[Len(ready_tokens)].t = "ItemUpdate"
  /\ Drained(Front(ready_tokens)).status = "ok"
  /\ ready_tokens[Len(ready_tokens)].d
       \notin DOMAIN Drained(Front(ready_tokens)).items

\* C29: dispatching an ItemUpdate token whose destination is not in the
\* items map is ignored: no panic, no event, the map and the slab are as
\* the tokens before it left them.
C29_StaleItemUpdateIgnored ==
  [][(Poll /\ LastTokenIsStale)
       => /\ status' = "ok"
          /\ ready_events' = Drained(Front(ready_tokens)).out
          /\ items' = Drained(Front(ready_tokens)).items
          /\ futures' = Drained(Front(ready_tokens)).futures]_vars

\* Every ItemUpdate token of tokens names a key of the items map when the
\* drain that starts in L reaches it.
RECURSIVE DispatchedTracked(_, _)
DispatchedTracked(L, tokens) ==
  \/ tokens = <<>>
  \/ L.status # "ok"
  \/ /\ Head(tokens).t = "ItemUpdate" => Head(tokens).d \in DOMAIN L.items
     /\ DispatchedTracked(wake_from(L, Head(tokens)), Tail(tokens))

\* C30: an ItemUpdate token names a key of the items map while it is in the
\* ready set and when it is dispatched.
C30_ItemTokensNameTrackedItems ==
  (status = "ok" /\ polled) =>
    /\ \A k \in 1..Len(ready_tokens) :
         ready_tokens[k].t = "ItemUpdate"
           => ready_tokens[k].d \in DOMAIN items
    /\ DispatchedTracked(Now, ready_tokens)

\* C31: a slot occupied by a future at the start of a poll holds that
\* future or is free at the end of the poll; it never holds another future.
C31_SlotNeverReassignedInPoll ==
  [][Poll =>
       \A i \in 1..Len(futures) :
         futures[i] # NoneFut =>
           /\ i <= Len(futures')
           /\ futures'[i] \in { futures[i], NoneFut }]_vars

\* The loop state after the token recorded first was dispatched alone, with
\* its events taken out.
AfterFirstToken == [wake_from(Now, ready_tokens[1]) EXCEPT !.out = <<>>]

\* C32: the ready set is dispatched first-in first-out.  A poll of two
\* tokens returns the events of the token recorded first, then the events
\* the token recorded second produces on the state the first one left.
C32_ReadySetFifo ==
  [][(/\ Poll /\ polled
      /\ Len(ready_tokens) = 2
      /\ status' = "ok")
       => /\ ready_events'
               = wake_from(Now, ready_tokens[1]).out
                   \o wake_from(AfterFirstToken, ready_tokens[2]).out
          /\ items' = wake_from(AfterFirstToken, ready_tokens[2]).items
          /\ futures' = wake_from(AfterFirstToken, ready_tokens[2]).futures]_vars

\* A poll returned the Add of one destination and then the Add of another:
\* two bring-ups, woken one after the other, resolved in one poll.
C32_Witness ==
  /\ ret = "Some"
  /\ Len(ready_events) = 2
  /\ ready_events[1].t = "Add" /\ ready_events[2].t = "Add"
  /\ ready_events[1].d # ready_events[2].d

\* The futures a poll stored in slots that were free before it, by slot.
NewFutures ==
  SelectSeq([i \in 1..Len(futures') |->
               IF i > Len(futures) \/ futures[i] = NoneFut THEN futures'[i]
               ELSE NoneFut],
            LAMBDA f : f # NoneFut)

\* A ready set that names one stream only.
OneStream ==
  /\ ready_tokens # <<>>
  /\ ready_tokens[1].t # "FutureEvent"
  /\ \A k \in DOMAIN ready_tokens : ready_tokens[k] = ready_tokens[1]

DisconnectsOf(d) == SelectSeq(items[d].dq, LAMBDA n : IsDisconnect(n, d))

\* C33: a dispatch of the registration stream or of a stream of an item
\* that returns leaves the stream without a queued message, and stored one
\* follow-up future for each message that was queued and did not resolve at
\* once, in the order of the messages.
C33_DrainToPending ==
  [][(Poll /\ polled /\ OneStream /\ status' = "ok") =>
       LET tk == ready_tokens[1] IN
         IF tk.t = "NewItem"
           THEN /\ regq' = <<>>
                /\ NewFutures = [i \in 1..Len(regq) |-> NewItemFut(regq[i])]
         ELSE IF tk.w = "Disconnect"
           THEN /\ items'[tk.d].dq = <<>>
                /\ NewFutures = [i \in 1..Len(DisconnectsOf(tk.d)) |->
                                   RemoveFut(tk.d, DisconnectsOf(tk.d)[i])]
         ELSE IF tk.w = "PropertyChange"
           THEN /\ items'[tk.d].pq = <<>>
                /\ NewFutures = [i \in 1..Len(items[tk.d].pq) |->
                                   UpdateFut(tk.d, items[tk.d].pq[i])]
         ELSE /\ items'[tk.d].lq = 0
              /\ NewFutures = [i \in 1..items[tk.d].lq |-> LayoutFut(tk.d)]]_vars

\* Two signals were queued in one stream when it was dispatched.
C33_Witness ==
  /\ polled /\ status = "ok" /\ ready_tokens = <<>>
  /\ \E i, j \in 1..Len(futures) :
       /\ i < j
       /\ futures[i].k = "upd" /\ futures[j].k = "upd"
       /\ futures[i].res = "wait" /\ futures[j].res = "wait"
       /\ futures[i].d = futures[j].d
       /\ futures[i].m # futures[j].m

\* The slots of the slab called on that are free, counted from 1.
FreeBefore == { i \in 1..Len(fm.prev) : fm.prev[i] = NoneFut }

\* The slot the call had to take: the lowest free one, else a new last one.
Slot ==
  IF FreeBefore = {} THEN Len(fm.prev) + 1
  ELSE CHOOSE i \in FreeBefore : \A j \in FreeBefore : i <= j

\* Every slot that held a future before the call still holds it.
OthersKept ==
  /\ Len(fm.map) = IF FreeBefore = {} THEN Len(fm.prev) + 1 ELSE Len(fm.prev)
  /\ \A j \in 1..Len(fm.prev) : j # Slot => fm.map[j] = fm.prev[j]

CompletesAtOnce(fut) ==
  fut.res # "wait" \/ (fut.k = "rem" /\ ~IsDisconnect(fut.n, fut.d))

\* C34: try_put polls the future with a waker tagged FutureEvent(i), i the
\* slot it reserved; a future that completes on that poll leaves slot i free
\* and its result is returned; any other is stored in slot i, no other slot
\* changes and nothing is returned.
C34_TryPut ==
  fm.op = "try_put" =>
    /\ fm.waker = FutureEvent(Slot - 1)
    /\ OthersKept
    /\ IF CompletesAtOnce(fm.fut)
         THEN /\ fm.map[Slot] = NoneFut
              /\ fm.ret = IF fm.fut.k = "lay"
                            THEN <<LEUpdata(get_new_layout(fm.fut.d))>>
                          ELSE <<>>
         ELSE /\ fm.map[Slot] = fm.fut
              /\ fm.ret = <<>>

\* A waiting future was put into a slab whose first slot was free while a
\* later one was occupied.
C34_Witness ==
  /\ fm.op = "try_put"
  /\ ~CompletesAtOnce(fm.fut)
  /\ Len(fm.prev) = 3
  /\ fm.prev[1] = NoneFut /\ fm.prev[2] # NoneFut /\ fm.prev[3] = NoneFut
  /\ fm.map[1] = fm.fut

\* C35: preserve_space returns the lowest free index; when every slot is
\* occupied it appends one free slot and returns its index; occupied slots
\* are neither returned nor modified.
C35_PreserveSpace ==
  fm.op = "preserve_space" =>
    /\ fm.index = Slot - 1
    /\ fm.map[fm.index + 1] = NoneFut
    /\ fm.map = IF FreeBefore = {} THEN Append(fm.prev, NoneFut) ELSE fm.prev

\* preserve_space was called on a slab with two free slots after an occupied
\* one.
C35_Witness ==
  /\ fm.op = "preserve_space"
  /\ Len(fm.prev) = 3
  /\ fm.prev[1] # NoneFut /\ fm.prev[2] = NoneFut /\ fm.prev[3] = NoneFut
  /\ fm.index = 1

\* The future f is the future g, whatever the bus has answered or queued
\* for it so far.
SameFuture(f, g) ==
  /\ f.k = g.k /\ f.a = g.a /\ f.d = g.d /\ f.m = g.m /\ f.n = g.n

\* The poll about to happen dispatches slot i (from 1) and its future
\* resolves.
Resolves(i) ==
  /\ polled
  /\ \E k \in DOMAIN ready_tokens : ready_tokens[k] = FutureEvent(i - 1)
  /\ PollFuture(futures[i]).ready

\* C36: a future stored in slot i stays in slot i until a poll dispatches
\* FutureEvent(i) and it resolves; that poll takes it out of the slot; the
\* slab never gets shorter.
C36_SlotStable ==
  [][status' = "ok" =>
       /\ Len(futures') >= Len(futures)
       /\ \A i \in 1..Len(futures) :
            futures[i] # NoneFut =>
              IF Poll /\ Resolves(i)
                THEN ~(futures'[i] # NoneFut /\ futures'[i].res # "wait")
                ELSE SameFuture(futures'[i], futures[i])]_vars

\* A poll resolved the future of the first slot while the future of the
\* second slot stayed where it was.
C36_Witness ==
  /\ polled /\ status = "ok" /\ ret = "Some"
  /\ Len(futures) >= 2
  /\ futures[1] = NoneFut
  /\ futures[2] # NoneFut

\* The poll about to happen dispatches the name-owner-changed stream of a
\* tracked item only, the stream is open and no record queued in it is the
\* item's disconnect.
OtherRecordsOnly ==
  /\ polled /\ OneStream
  /\ ready_tokens[1].t = "ItemUpdate" /\ ready_tokens[1].w = "Disconnect"
  /\ ready_tokens[1].d \in DOMAIN items
  /\ "Disconnect" \notin items[ready_tokens[1].d].end
  /\ items[ready_tokens[1].d].dq # <<>>
  /\ DisconnectsOf(ready_tokens[1].d) = <<>>

\* C37: a name-owner-changed record of tracked item D that is not (old = D,
\* no new owner) produces no event, starts no remove finalization (the
\* future that calls UnregisterStatusNotifierItem) and leaves every item in
\* the items map.
C37_OtherRecordIgnored ==
  [][(Poll /\ OtherRecordsOnly) =>
       /\ status' = "ok"
       /\ ret' = "Pending" /\ ready_events' = <<>>
       /\ NewFutures = <<>>
       /\ \A i \in 1..Len(futures) : futures'[i] = futures[i]
       /\ DOMAIN items' = DOMAIN items
       /\ \A d \in DOMAIN items :
            items'[d] = IF d = ready_tokens[1].d THEN [items[d] EXCEPT !.dq = <<>>]
                        ELSE items[d]]_vars

\* The item of ":1.50" received records, none its disconnect, all were
\* dispatched and the item is tracked.
C37_Witness ==
  /\ polled /\ status = "ok" /\ ready_tokens = <<>>
  /\ <<":1.50">> \in otherSeen \ lostSeen
  /\ <<":1.50">> \in DOMAIN items
  /\ items[<<":1.50">>].dq = <<>>
  /\ "Disconnect" \notin items[<<":1.50">>].end

\* The destinations whose last observed Add has no Remove after it.
AddedNotRemoved ==
  { d \in Destinations :
      \E i \in 1..Len(Observed) :
        /\ Observed[i].e.t = "Add" /\ Observed[i].e.d = d
        /\ \A j \in (i + 1)..Len(Observed) :
             ~(Observed[j].e.t = "Remove" /\ Observed[j].e.d = d) }

\* The events of kind t the last poll returned are about destination d.
Returned(t, d) ==
  \E k \in 1..Len(ready_events') :
    ready_events'[k].t = t /\ ready_events'[k].d = d

\* C38: whenever poll_next has returned the keys of the items map are the
\* destinations with an Add and no Remove after their last Add; an item is
\* inserted by the poll that returns its Add and deleted by the poll that
\* returns its Remove.
C38_ItemsAreAddedNotRemoved ==
  /\ [](status = "ok" => DOMAIN items = AddedNotRemoved)
  /\ [][status' = "ok" =>
          \A d \in Destinations :
            /\ (d \in DOMAIN items' /\ d \notin DOMAIN items)
                 => Poll /\ Returned("Add", d)
            /\ (d \in DOMAIN items /\ d \notin DOMAIN items')
                 => Poll /\ Returned("Remove", d)]_vars

\* The Remove of one item was returned and deleted it while another item
\* is tracked.
C38_Witness ==
  /\ status = "ok"
  /\ \E d \in Destinations :
       /\ d \notin DOMAIN items
       /\ \E i \in 1..Len(Observed) :
            Observed[i].e.t = "Remove" /\ Observed[i].e.d = d
  /\ DOMAIN items # {}

\* C39: in the channel client a failed bring-up of one item does not stop
\* the processing of the other addresses: the task that ran handle_item is
\* still there to handle the registrations that follow and the rest of the
\* initial list.
C39_FailedBringUpKeepsTasks ==
  [][\A task \in ItemTasks, a \in Addresses, menu \in BOOLEAN :
       ChanHandleItem(task, a, "err", menu) => chan'.tasks = chan.tasks]_vars

\* C40: in the channel client, once Remove(d) was sent no further event of
\* d is sent: no later Update(d, _) and no second Remove(d) (events that
\* follow a new Add(d) belong to the item brought up again).
C40_NothingAfterRemove ==
  \A i, j \in 1..Len(chan.sent) :
    (/\ i < j
     /\ chan.sent[i].t = "Remove"
     /\ chan.sent[j].d = chan.sent[i].d
     /\ chan.sent[j].t \in { "Update", "Remove" })
      => \E k \in (i + 1)..(j - 1) :
           chan.sent[k].t = "Add" /\ chan.sent[k].d = chan.sent[i].d

=============================================================================
